---- MODULE Spec2Model ----
(***************************************************************************)
(* State-machine model of the housing dashboard: the Mapbox overlay        *)
(* (map.js with setMapLayer), the C3 chart panel (js/charts.js) and the    *)
(* control panel (js/panel.js).  One action per event handler or promise   *)
(* continuation; the browser runs each handler to completion.              *)
(***************************************************************************)
EXTENDS Integers, Sequences, FiniteSets, TLC

\* ------------------------------------------------------------------ bounds
MaxRows == 2          \* rows in the rent_burden file
NumFeatures == 2      \* polygons of the zones file (generateId: 0..n-1)
SliderMin == 2021     \* range of the year slider element
SliderMax == 2023
MaxInits == 2         \* runs of initPanel() when scripts may call it again
MaxTrail == 3         \* colourings of mha-fill that are remembered

\* --------------------------------------------------------- program constants
DEFAULT_YEAR == 2022
DEFAULT_RACE == "All"
DEFAULT_LAYER == "mha"

NULL == -1            \* JavaScript null for hoveredId
UNDEFINED == -2       \* JavaScript undefined: the id of a feature without OBJECTID

\* The repository holds two map scripts; a page loads one of them.
\*   "setMapLayer": hover handlers in initMapInteractions, then initCharts()
\*                  and initPanel(); exposes setMapLayer and resetMapView
\*   "category":    js/map.js, hover handlers inline, promoteId: 'OBJECTID'
MapScripts == {"setMapLayer", "category"}

LayerIds == {"mha-fill", "mha-outline", "mha-hover"}
CategoryLayerIds == {"mha-fill", "mha-line", "mha-hover"}
AllLayerIds == LayerIds \cup CategoryLayerIds
Features == 0 .. (NumFeatures - 1)
SliderYears == SliderMin .. SliderMax
RaceButtons == {"All", "White", "Black"}
LayerButtons == {"mha", "base"}
Controls == {"year-slider", "race-btn", "layer-btn", "reset-btn"}

\* races of the bar chart, in the order the code lists them
Races == <<"White", "Black", "Hispanic", "Asian", "Native">>

\* ------------------------------------------------------------- input data
\* A row of rent_burden.geojson; All_ is the burden fraction in units of 1e-4.
Row(y, r, t, a, v) == [YEAR |-> y, RACE |-> r, TENURE |-> t, AGE |-> a, All_ |-> v]

RowPool ==
    { Row(2022, "All", "Renters", "All", 2310),
      Row(2022, "Black", "Renters", "All", 2000),
      Row(2021, "Black", "Renters", "All", 3456),
      Row(2022, "Black", "Owners", "All", 1000) }

RECURSIVE SeqsUpTo(_, _)
SeqsUpTo(S, n) ==
    IF n = 0 THEN { <<>> }
    ELSE LET shorter == SeqsUpTo(S, n - 1)
         IN  shorter \cup { Append(s, x) : s \in { t \in shorter : Len(t) = n - 1 }, x \in S }

\* at most one row per (year, race, tenure, age group): no row occurs twice
NoRepeat(s) == \A i, j \in 1 .. Len(s) : s[i] = s[j] => i = j

BurdenFiles == { s \in SeqsUpTo(RowPool, MaxRows) : NoRepeat(s) }

\* ------------------------------------------------------------------- state
VARIABLES
    mapScript,       \* which of the two map scripts the page loads
    mapStage,        \* "init" | "fetching" | "ok" | "failed": map load and zones fetch
    layers,          \* layer id -> "absent" | "visible" | "none"
    mhaVisible,      \* map.js: let mhaVisible
    bound,           \* initMapInteractions() has registered the hover handlers
    hoveredId,       \* closure variable of initMapInteractions
    hovered,         \* feature ids whose feature-state hovered is true
    popupOpen,       \* the shared popup is on the map
    cursor,          \* canvas cursor style
    view,            \* "default" | "moved": the map camera
    chartFetch,      \* "idle" | "pending" | "ok" | "failed": Promise.all of initCharts
    burdenFile,      \* content of assets/rent_burden.geojson
    rentBurdenData,
    currentYear,
    currentRace,
    trendChart,      \* [built, x, y]
    raceChart,       \* [built, y]
    incomeChart,     \* built or not
    statText,        \* #burden-stat
    subLabel,        \* #burden-year-label
    chart2Label,     \* #chart2-year-label
    sliderValue,     \* #year-slider value
    yearDisplay,     \* #year-display text
    raceActive,      \* race buttons carrying class active
    layerActive,     \* layer buttons carrying class active
    legendOpacity,   \* #legend style.opacity
    zonesFile,       \* content of the zones GeoJSON file: [crs, features]
    sourceData,      \* the GeoJSON handed to map.addSource: [crs, features]
    fillColor,       \* paint property fill-color of layer mha-fill
    legendTitle,     \* #legend-title text
    legendItems,     \* #legend-items rows
    modeTrail,       \* the colourings given to mha-fill, the last MaxTrail of them
    listeners,       \* control -> number of listeners attached
    threw,           \* the last handler ended in an uncaught exception
    lastEvent,       \* the handler that ran last
    updateRuns       \* how many times the last event ran its update

mapVars == <<mapScript, mapStage, layers, mhaVisible, bound, hoveredId, hovered, popupOpen, cursor, view>>
chartVars == <<chartFetch, burdenFile, rentBurdenData, currentYear, currentRace,
               trendChart, raceChart, incomeChart, statText, subLabel, chart2Label>>
domVars == <<sliderValue, yearDisplay, raceActive, layerActive, legendOpacity, listeners>>
zoneVars == <<zonesFile, sourceData, fillColor, legendTitle, legendItems, modeTrail>>
obsVars == <<threw, lastEvent, updateRuns>>
vars == <<mapVars, chartVars, domVars, zoneVars, obsVars>>

\* ------------------------------------------------------- charts.js helpers
\* The predicate of every rentBurdenData.find / filter: Renters, all ages.
IsRow(d, year, race) ==
    d.YEAR = year /\ d.RACE = race /\ d.TENURE = "Renters" /\ d.AGE = "All"

\* Array.prototype.find: index of the first row that matches, 0 when none does.
FindRow(data, year, race) ==
    LET hits == { i \in 1 .. Len(data) : IsRow(data[i], year, race) }
    IN  IF hits = {} THEN 0 ELSE CHOOSE i \in hits : \A j \in hits : i <= j

\* Array.prototype.filter on d.RACE === race && Renters && All
RECURSIVE FilterRace(_, _)
FilterRace(data, race) ==
    IF data = <<>> THEN <<>>
    ELSE LET d == Head(data)
             rest == FilterRace(Tail(data), race)
         IN  IF d.RACE = race /\ d.TENURE = "Renters" /\ d.AGE = "All"
             THEN <<d>> \o rest ELSE rest

\* stable insertion of d into a sequence sorted by YEAR
RECURSIVE InsertByYear(_, _)
InsertByYear(d, sorted) ==
    IF sorted = <<>> THEN <<d>>
    ELSE IF d.YEAR < Head(sorted).YEAR THEN <<d>> \o sorted
    ELSE <<Head(sorted)>> \o InsertByYear(d, Tail(sorted))

\* .sort((a, b) => a.YEAR - b.YEAR), a stable sort
RECURSIVE SortByYear(_)
SortByYear(rows) ==
    IF rows = <<>> THEN <<>>
    ELSE InsertByYear(rows[Len(rows)], SortByYear(SubSeq(rows, 1, Len(rows) - 1)))

getRentBurdenSeries(data, race) == SortByYear(FilterRace(data, race))

\* +(v * 100).toFixed(1): the percentage in tenths of a percent
toFixed1(v) == (v + 5) \div 10

\* the values of the year's rows as they come in the file
getBurdenByRace_StorageOrder(data, year) ==
    LET rows == SelectSeq(data, LAMBDA d : d.YEAR = year /\ d.TENURE = "Renters" /\ d.AGE = "All"
                                           /\ \E i \in 1 .. Len(Races) : d.RACE = Races[i])
    IN  [ i \in 1 .. Len(rows) |-> toFixed1(rows[i].All_) ]

getBurdenByRace(data, year) ==
    [ i \in 1 .. Len(Races) |->
        LET k == FindRow(data, year, Races[i])
        IN  IF k # 0 THEN toFixed1(data[k].All_) ELSE 0 ]

\* a percentage cut to whole percents
pct_NoDecimal(val) == ToString(toFixed1(val) \div 10) \o "%"

\* races of buildRaceChart in the chart script that loads by itself
BuildRaceChartRaces == <<"White", "Black", "Hispanic", "Asian", "Native", "Multi">>

\* values of buildRaceChart(): parseFloat((row.All_ * 100).toFixed(1)) or 0,
\* for the year 2022
buildRaceChartValues(data) ==
    [ i \in 1 .. Len(BuildRaceChartRaces) |->
        LET k == FindRow(data, 2022, BuildRaceChartRaces[i])
        IN  IF k # 0 THEN toFixed1(data[k].All_) ELSE 0 ]

\* (val * 100).toFixed(1) + '%'
pct(val) ==
    ToString(toFixed1(val) \div 10) \o "." \o ToString(toFixed1(val) % 10) \o "%"

\* getYears(): the distinct years of the loaded rows
getYears(data) == { data[i].YEAR : i \in 1 .. Len(data) }

NoTrend == [built |-> FALSE, x |-> <<>>, y |-> <<>>]
NoRace == [built |-> FALSE, y |-> <<>>]

TrendColumns(data, race) ==
    LET series == getRentBurdenSeries(data, race)
    IN  [built |-> TRUE,
         x |-> [ i \in 1 .. Len(series) |-> series[i].YEAR ],
         y |-> [ i \in 1 .. Len(series) |-> toFixed1(series[i].All_) ]]

\* The chart panel's mutable state as one record, so that the update
\* functions compose the way the calls in the code do.
ChartState ==
    [currentYear |-> currentYear, currentRace |-> currentRace,
     trendChart |-> trendChart, raceChart |-> raceChart,
     statText |-> statText, subLabel |-> subLabel, chart2Label |-> chart2Label,
     threw |-> FALSE]

\* "-" stands for the en dash placeholder and " . " for the middle dot
\* separator of the page (the strings here are ASCII).
updateBurdenStat(c, data, year, race) ==
    LET k == FindRow(data, year, race)
        raceLabel == IF race = "All" THEN "All renters" ELSE race \o " renters"
    IN  [c EXCEPT !.statText = IF k # 0 THEN pct(data[k].All_) ELSE "-",
                  !.subLabel = raceLabel \o " . " \o ToString(year)]

updateChartsForYear_ResetsRace(c, data, year) ==
    LET c1 == [c EXCEPT !.currentYear = year, !.currentRace = "All"]
    IN  IF ~c1.raceChart.built THEN [c1 EXCEPT !.threw = TRUE]
        ELSE updateBurdenStat(
                 [c1 EXCEPT !.raceChart = [built |-> TRUE, y |-> getBurdenByRace(data, year)],
                            !.trendChart = TrendColumns(data, "All"),
                            !.chart2Label = "(" \o ToString(year) \o ")"],
                 data, year, "All")

\* raceChart.load on a chart that was never generated is a TypeError:
\* the statements after it do not run.
updateChartsForYear(c, data, year) ==
    LET c1 == [c EXCEPT !.currentYear = year]
    IN  IF ~c1.raceChart.built THEN [c1 EXCEPT !.threw = TRUE]
        ELSE updateBurdenStat(
                 [c1 EXCEPT !.raceChart = [built |-> TRUE, y |-> getBurdenByRace(data, year)],
                            !.chart2Label = "(" \o ToString(year) \o ")"],
                 data, year, c1.currentRace)

updateChartsForRace_ResetsYear(c, data, race) ==
    LET c1 == [c EXCEPT !.currentRace = race, !.currentYear = 2022]
    IN  IF ~c1.trendChart.built THEN [c1 EXCEPT !.threw = TRUE]
        ELSE updateBurdenStat(
                 [c1 EXCEPT !.trendChart = TrendColumns(data, race),
                            !.raceChart = [built |-> TRUE, y |-> getBurdenByRace(data, 2022)]],
                 data, 2022, race)

updateChartsForRace(c, data, race) ==
    LET c1 == [c EXCEPT !.currentRace = race]
    IN  IF ~c1.trendChart.built THEN [c1 EXCEPT !.threw = TRUE]
        ELSE updateBurdenStat([c1 EXCEPT !.trendChart = TrendColumns(data, race)],
                              data, c1.currentYear, race)

resetCharts(c, data) ==
    LET c1 == updateChartsForYear(
                  [c EXCEPT !.currentYear = 2022, !.currentRace = "All"], data, 2022)
    IN  IF c1.threw THEN c1 ELSE updateChartsForRace(c1, data, "All")

\* assignment of a chart-state record to the chart variables
SetCharts(c) ==
    /\ currentYear' = c.currentYear
    /\ currentRace' = c.currentRace
    /\ trendChart' = c.trendChart
    /\ raceChart' = c.raceChart
    /\ statText' = c.statText
    /\ subLabel' = c.subLabel
    /\ chart2Label' = c.chart2Label
    /\ threw' = c.threw

\* ------------------------------------------------------------------- Init
\* slider.value = v keeps the value inside the element's min..max
Clamp(v) == IF v < SliderMin THEN SliderMin ELSE IF v > SliderMax THEN SliderMax ELSE v

\* ------------------------------------------------------ the zones file
\* A coordinates value of a GeoJSON geometry is a tree: a position [x, y]
\* (coords[0] is a number) or an array of coordinates values.  A position is
\* identified by id; frame is the reference its numbers are in and n counts
\* the proj4 transforms applied to it.
Pair(id, frame) == [kind |-> "pair", id |-> id, frame |-> frame, n |-> 0, items |-> <<>>]
Arr(items) == [kind |-> "array", id |-> 0, frame |-> "", n |-> 0, items |-> items]
\* f.geometry is null
NoGeometry == [kind |-> "null", id |-> 0, frame |-> "", n |-> 0, items |-> <<>>]

\* crs member of the file: a projected reference, a geographic one, or absent
\* (GeoJSON then means geographic)
CrsNames == {"EPSG:2285", "CRS84", "absent"}
FrameOf(crs) == IF crs = "EPSG:2285" THEN "projected" ELSE "geographic"

\* geometries of a file in reference frame fr: a polygon with one ring, a
\* multipolygon with two polygons, a feature without geometry, and a geometry
\* with no coordinates
Geometries(fr) ==
    { Arr(<<Arr(<<Pair(1, fr), Pair(2, fr)>>)>>),
      Arr(<<Arr(<<Arr(<<Pair(3, fr)>>)>>), Arr(<<Arr(<<Pair(4, fr), Pair(5, fr)>>)>>)>>),
      NoGeometry,
      Arr(<<>>) }

\* the files: NumFeatures features, their numbers in the reference declared
ZoneFiles ==
    UNION { { [crs |-> c, features |-> fs] : fs \in [1..NumFeatures -> Geometries(FrameOf(c))] } :
            c \in CrsNames }

\* proj4('EPSG:2285', 'WGS84', coords): state-plane feet become degrees;
\* numbers that were degrees already land somewhere else
proj4(coords) ==
    [coords EXCEPT !.n = @ + 1,
                   !.frame = IF @ = "projected" THEN "geographic" ELSE "misplaced"]

RECURSIVE reprojectCoords(_)
reprojectCoords(coords) ==
    IF coords.kind = "pair"
    THEN proj4(coords)
    ELSE [coords EXCEPT !.items = [i \in 1..Len(coords.items) |-> reprojectCoords(coords.items[i])]]

\* geojson.features.forEach(... reprojectCoords ...); delete geojson.crs
reprojectAll(geojson) ==
    [crs |-> "absent",
     features |-> [i \in 1..Len(geojson.features) |->
                     IF geojson.features[i].kind # "null"
                     THEN reprojectCoords(geojson.features[i])
                     ELSE geojson.features[i]]]

\* ------------------------------------------------- paint and legend
\* fill-color of mha-fill in the dashboard script, from MHA_COLORS
MHA_COLORS_Paint ==
    <<"match", "get MHA_VALUE", "M", "#4fc3c3", "M1", "#f5a623", "M2", "#e74c3c", "#333333">>

CATEGORY_COLORS ==
    << <<"Lowrise Multi-Family", "#4fc3c3">>, <<"High-Density Multi-Family", "#177e89">>,
       <<"Neighborhood Commercial", "#f5a623">>, <<"Commercial", "#e07b39">>,
       <<"Seattle Mixed", "#9b59b6">>, <<"Industrial", "#7f8c8d">>,
       <<"Downtown", "#e74c3c">>, <<"Major Institutions", "#2ecc71">> >>

mhaValuePaint ==
    <<"match", "get MHA_VALUE", "M", "#f5a623", "M1", "#e07b39", "M2", "#c0392b", "#4a5568">>

RECURSIVE PushEntries(_, _)
PushEntries(expr, entries) ==
    IF entries = <<>> THEN expr
    ELSE PushEntries(expr \o entries[1], Tail(entries))

categoryPaint == Append(PushEntries(<<"match", "get CATEGORY_DESC">>, CATEGORY_COLORS), "#4a5568")

\* legend rows are <<swatch colour, label>>
MhaLegendItems ==
    << <<"#f5a623", "M &mdash; Standard">>, <<"#e07b39", "M1 &mdash; Medium">>,
       <<"#c0392b", "M2 &mdash; High">>, <<"#4a5568", "No MHA Value">> >>

CategoryLegendItems ==
    Append([i \in 1..Len(CATEGORY_COLORS) |-> <<CATEGORY_COLORS[i][2], CATEGORY_COLORS[i][1]>>],
           <<"#4a5568", "Other">>)

\* the legend markup the page is served with
HtmlLegend == [title |-> "html", items |-> <<>>]

\* the files the pages are deployed with, every feature a one-ring polygon:
\* assets/MHA_zones_.geojson in state-plane feet for the dashboard,
\* assets/mha_zones.geojson in degrees for the category page
DeployedZones(script) ==
    LET c == IF script = "setMapLayer" THEN "EPSG:2285" ELSE "absent"
    IN  [crs |-> c,
         features |-> [i \in 1..NumFeatures |->
                         Arr(<<Arr(<<Pair(1, FrameOf(c)), Pair(2, FrameOf(c))>>)>>)]]

InitPage ==
    /\ mapStage = "init"
    /\ layers = [l \in AllLayerIds |-> "absent"]
    /\ mhaVisible = TRUE
    /\ bound = FALSE
    /\ hoveredId = NULL
    /\ hovered = {}
    /\ popupOpen = FALSE
    /\ cursor = ""
    /\ view = "default"
    /\ chartFetch = "idle"
    /\ sourceData = [crs |-> "absent", features |-> <<>>]
    /\ fillColor = <<>>
    /\ legendTitle = HtmlLegend.title
    /\ legendItems = HtmlLegend.items
    /\ modeTrail = <<>>
    /\ rentBurdenData = <<>>
    /\ currentYear = 2022
    /\ currentRace = "All"
    /\ trendChart = NoTrend
    /\ raceChart = NoRace
    /\ incomeChart = FALSE
    /\ statText = ""
    /\ subLabel = ""
    /\ chart2Label = ""
    /\ sliderValue = Clamp(DEFAULT_YEAR)
    /\ yearDisplay = DEFAULT_YEAR
    /\ raceActive = {DEFAULT_RACE}
    /\ layerActive = {DEFAULT_LAYER}
    /\ legendOpacity = "1"
    /\ listeners = [c \in Controls |-> 0]
    /\ threw = FALSE
    /\ lastEvent = "none"
    /\ updateRuns = 0

InitState == InitPage /\ burdenFile \in BurdenFiles

\* the dashboard page: the map script with setMapLayer, charts.js, panel.js
Init == InitState /\ mapScript = "setMapLayer" /\ zonesFile = DeployedZones(mapScript)

\* --------------------------------------------------------------- map.js
\* setMapLayer(layerName)
setMapLayer(layerName) ==
    /\ mhaVisible' = (layerName = "mha")
    /\ layers' = IF layers["mha-fill"] # "absent"
                 THEN [l \in AllLayerIds |->
                          IF l \in LayerIds
                          THEN (IF layerName = "mha" THEN "visible" ELSE "none")
                          ELSE layers[l]]
                 ELSE layers
    /\ popupOpen' = IF layerName # "mha" THEN FALSE ELSE popupOpen

\* initPanel(): every init* function adds one more listener to its control
initPanel == listeners' = [c \in Controls |-> listeners[c] + 1]

\* map.on('load'): the zones fetch starts
MapLoad ==
    /\ mapStage = "init"
    /\ mapStage' = "fetching"
    /\ lastEvent' = "map-load"
    /\ threw' = FALSE
    /\ updateRuns' = 0
    /\ UNCHANGED <<mapScript, layers, mhaVisible, bound, hoveredId, hovered, popupOpen, cursor, view>>
    /\ UNCHANGED <<chartVars, domVars>>
    /\ UNCHANGED zoneVars

\* .then(function (geojson) {...}): source and the three layers are added,
\* initMapInteractions(), initCharts() (which only starts the two fetches)
\* and initPanel() run in this one continuation.
ZonesFetchOk ==
    /\ mapScript = "setMapLayer"
    /\ mapStage = "fetching"
    /\ mapStage' = "ok"
    /\ layers' = [l \in AllLayerIds |-> IF l \in LayerIds THEN "visible" ELSE "absent"]
    /\ bound' = TRUE
    /\ hoveredId' = NULL
    /\ chartFetch' = "pending"
    /\ initPanel
    /\ lastEvent' = "zones-loaded"
    /\ threw' = FALSE
    /\ updateRuns' = 0
    /\ UNCHANGED <<mapScript, mhaVisible, hovered, popupOpen, cursor, view>>
    /\ UNCHANGED <<burdenFile, rentBurdenData, currentYear, currentRace, trendChart,
                   raceChart, incomeChart, statText, subLabel, chart2Label>>
    /\ UNCHANGED <<sliderValue, yearDisplay, raceActive, layerActive, legendOpacity>>
    /\ sourceData' = reprojectAll(zonesFile)
    /\ fillColor' = MHA_COLORS_Paint
    /\ modeTrail' = <<"mha">>
    /\ UNCHANGED <<zonesFile, legendTitle, legendItems>>

\* a catch that goes on to bind the controls
ZonesFetchFail_StillInits ==
    /\ mapStage = "fetching"
    /\ mapStage' = "failed"
    /\ initPanel
    /\ lastEvent' = "zones-failed"
    /\ threw' = FALSE
    /\ updateRuns' = 0
    /\ UNCHANGED <<mapScript, layers, mhaVisible, bound, hoveredId, hovered, popupOpen, cursor, view>>
    /\ UNCHANGED <<chartVars, sliderValue, yearDisplay, raceActive, layerActive, legendOpacity>>
    /\ UNCHANGED zoneVars

\* .catch(...): console.error only
ZonesFetchFail ==
    /\ mapStage = "fetching"
    /\ mapStage' = "failed"
    /\ lastEvent' = "zones-failed"
    /\ threw' = FALSE
    /\ updateRuns' = 0
    /\ UNCHANGED <<mapScript, layers, mhaVisible, bound, hoveredId, hovered, popupOpen, cursor, view>>
    /\ UNCHANGED <<chartVars, domVars>>
    /\ UNCHANGED zoneVars

\* mousemove's two setFeatureState calls: the old id's flag is cleared, then
\* the new id's flag is set
HoverMove_KeepsOld(flags, prev, id) == flags \cup {id}

HoverMove(flags, prev, id) ==
    (IF prev # NULL THEN flags \ {prev} ELSE flags) \cup {id}

\* mouseleave's setFeatureState call
HoverLeave_KeepsFlag(flags, prev) == flags

HoverLeave(flags, prev) == IF prev # NULL THEN flags \ {prev} ELSE flags

\* map.on('mousemove', 'mha-fill'): Mapbox delivers it over rendered features
MouseMove(feats) ==
    /\ mapScript = "setMapLayer"
    /\ bound
    /\ layers["mha-fill"] = "visible"
    /\ IF Len(feats) = 0
       THEN UNCHANGED <<cursor, hoveredId, hovered, popupOpen>>
       ELSE /\ cursor' = "pointer"
            /\ hoveredId' = feats[1]
            /\ hovered' = HoverMove(hovered, hoveredId, feats[1])
            /\ popupOpen' = TRUE
    /\ lastEvent' = "mousemove"
    /\ threw' = FALSE
    /\ updateRuns' = 0
    /\ UNCHANGED <<mapScript, mapStage, layers, mhaVisible, bound, view>>
    /\ UNCHANGED <<chartVars, domVars>>
    /\ UNCHANGED zoneVars

\* map.on('mouseleave', 'mha-fill')
MouseLeave ==
    /\ mapScript = "setMapLayer"
    /\ bound
    /\ cursor' = ""
    /\ popupOpen' = FALSE
    /\ hovered' = HoverLeave(hovered, hoveredId)
    /\ hoveredId' = NULL
    /\ lastEvent' = "mouseleave"
    /\ threw' = FALSE
    /\ updateRuns' = 0
    /\ UNCHANGED <<mapScript, mapStage, layers, mhaVisible, bound, view>>
    /\ UNCHANGED <<chartVars, domVars>>
    /\ UNCHANGED zoneVars

\* ---------------------------------------------------------- js/map.js
\* map.setFeatureState({source, id}, {hover: on}): without an id Mapbox
\* reports an error event and sets nothing
setFeatureState(flags, id, on) ==
    IF id = UNDEFINED THEN flags
    ELSE IF on THEN flags \cup {id} ELSE flags \ {id}

\* .then(function(geojson) {...}) of js/map.js: source, three layers and the
\* two hover handlers; this script starts neither the charts nor the panel
CategoryZonesFetchOk ==
    /\ mapScript = "category"
    /\ mapStage = "fetching"
    /\ mapStage' = "ok"
    /\ layers' = [l \in AllLayerIds |-> IF l \in CategoryLayerIds THEN "visible" ELSE "absent"]
    /\ bound' = TRUE
    /\ hoveredId' = NULL
    /\ lastEvent' = "zones-loaded"
    /\ threw' = FALSE
    /\ updateRuns' = 0
    /\ UNCHANGED <<mapScript, mhaVisible, hovered, popupOpen, cursor, view>>
    /\ UNCHANGED <<chartVars, domVars>>
    /\ sourceData' = zonesFile
    /\ fillColor' = mhaValuePaint
    /\ modeTrail' = <<"mha">>
    /\ UNCHANGED <<zonesFile, legendTitle, legendItems>>

\* map.on('mousemove', 'mha-fill') of js/map.js; id is e.features[0].id
CategoryMouseMove(id) ==
    /\ mapScript = "category"
    /\ bound
    /\ layers["mha-fill"] = "visible"
    /\ cursor' = "pointer"
    /\ hoveredId' = id
    /\ hovered' = setFeatureState(
                      IF hoveredId # NULL THEN setFeatureState(hovered, hoveredId, FALSE)
                                          ELSE hovered,
                      id, TRUE)
    /\ popupOpen' = TRUE
    /\ lastEvent' = "mousemove"
    /\ threw' = FALSE
    /\ updateRuns' = 0
    /\ UNCHANGED <<mapScript, mapStage, layers, mhaVisible, bound, view>>
    /\ UNCHANGED <<chartVars, domVars>>
    /\ UNCHANGED zoneVars

\* map.on('mouseleave', 'mha-fill') of js/map.js
CategoryMouseLeave ==
    /\ mapScript = "category"
    /\ bound
    /\ cursor' = ""
    /\ popupOpen' = FALSE
    /\ hovered' = IF hoveredId # NULL THEN setFeatureState(hovered, hoveredId, FALSE)
                                      ELSE hovered
    /\ hoveredId' = NULL
    /\ lastEvent' = "mouseleave"
    /\ threw' = FALSE
    /\ updateRuns' = 0
    /\ UNCHANGED <<mapScript, mapStage, layers, mhaVisible, bound, view>>
    /\ UNCHANGED <<chartVars, domVars>>
    /\ UNCHANGED zoneVars

\* the user drags or zooms the map (Mapbox's own handlers move the camera)
MapPan ==
    /\ view' = "moved"
    /\ lastEvent' = "pan"
    /\ threw' = FALSE
    /\ updateRuns' = 0
    /\ UNCHANGED <<mapScript, mapStage, layers, mhaVisible, bound, hoveredId, hovered, popupOpen, cursor>>
    /\ UNCHANGED <<chartVars, domVars>>
    /\ UNCHANGED zoneVars

\* resetMapView(): map.flyTo back to the default center and zoom
resetMapView == view' = "default"

\* ------------------------------------------------------------- charts.js
\* .then(function ([rbGeo, riGeo]) {...}) of initCharts
ChartsFetchOk ==
    /\ chartFetch = "pending"
    /\ chartFetch' = "ok"
    /\ rentBurdenData' = burdenFile
    /\ incomeChart' = TRUE
    /\ SetCharts(updateBurdenStat(
           [ChartState EXCEPT
               !.trendChart = TrendColumns(burdenFile, currentRace),
               !.raceChart = [built |-> TRUE, y |-> getBurdenByRace(burdenFile, currentYear)]],
           burdenFile, currentYear, currentRace))
    /\ lastEvent' = "charts-loaded"
    /\ updateRuns' = 0
    /\ UNCHANGED <<burdenFile, mapVars, domVars>>
    /\ UNCHANGED zoneVars

\* .catch(...) of initCharts: console.error only
ChartsFetchFail ==
    /\ chartFetch = "pending"
    /\ chartFetch' = "failed"
    /\ lastEvent' = "charts-failed"
    /\ threw' = FALSE
    /\ updateRuns' = 0
    /\ UNCHANGED <<burdenFile, rentBurdenData, currentYear, currentRace, trendChart,
                   raceChart, incomeChart, statText, subLabel, chart2Label>>
    /\ UNCHANGED <<mapVars, domVars>>
    /\ UNCHANGED zoneVars

\* --------------------------------------------------------------- panel.js
\* 'input' on #year-slider.  Each attached listener runs the same body; the
\* body overwrites what the previous run wrote.
SliderInput(year) ==
    /\ sliderValue' = year
    /\ IF listeners["year-slider"] > 0
       THEN /\ yearDisplay' = year
            /\ SetCharts(updateChartsForYear(ChartState, rentBurdenData, year))
       ELSE /\ threw' = FALSE
            /\ UNCHANGED <<yearDisplay, currentYear, currentRace, trendChart, raceChart,
                           statText, subLabel, chart2Label>>
    /\ lastEvent' = "slider-input"
    /\ updateRuns' = listeners["year-slider"]
    /\ UNCHANGED <<chartFetch, burdenFile, rentBurdenData, incomeChart>>
    /\ UNCHANGED <<raceActive, layerActive, legendOpacity, listeners, mapVars>>
    /\ UNCHANGED zoneVars

\* a click that marks its button and leaves the others marked
RaceClick_KeepsOthers(race) ==
    /\ listeners["race-btn"] > 0
    /\ raceActive' = raceActive \cup {race}
    /\ SetCharts(updateChartsForRace(ChartState, rentBurdenData, race))
    /\ lastEvent' = "race-click"
    /\ updateRuns' = listeners["race-btn"]
    /\ UNCHANGED <<chartFetch, burdenFile, rentBurdenData, incomeChart>>
    /\ UNCHANGED <<sliderValue, yearDisplay, layerActive, legendOpacity, listeners>>
    /\ UNCHANGED mapVars
    /\ UNCHANGED zoneVars

\* 'click' on a .race-btn
RaceClick(race) ==
    /\ listeners["race-btn"] > 0
    /\ raceActive' = {race}
    /\ SetCharts(updateChartsForRace(ChartState, rentBurdenData, race))
    /\ lastEvent' = "race-click"
    /\ updateRuns' = listeners["race-btn"]
    /\ UNCHANGED <<chartFetch, burdenFile, rentBurdenData, incomeChart>>
    /\ UNCHANGED <<sliderValue, yearDisplay, layerActive, legendOpacity, listeners>>
    /\ UNCHANGED mapVars
    /\ UNCHANGED zoneVars

\* 'click' on a .layer-btn
LayerClick(layer) ==
    /\ listeners["layer-btn"] > 0
    /\ layerActive' = {layer}
    /\ setMapLayer(layer)
    /\ legendOpacity' = IF layer = "mha" THEN "1" ELSE "0.3"
    /\ lastEvent' = "layer-click"
    /\ threw' = FALSE
    /\ updateRuns' = listeners["layer-btn"]
    /\ UNCHANGED <<mapScript, mapStage, bound, hoveredId, hovered, cursor, view>>
    /\ UNCHANGED <<sliderValue, yearDisplay, raceActive, listeners>>
    /\ UNCHANGED chartVars
    /\ UNCHANGED zoneVars

\* 'click' on #reset-btn: an exception out of resetCharts() ends the handler
\* before resetMapView() and setMapLayer(DEFAULT_LAYER).
ResetClick ==
    /\ listeners["reset-btn"] > 0
    /\ sliderValue' = Clamp(DEFAULT_YEAR)
    /\ yearDisplay' = DEFAULT_YEAR
    /\ raceActive' = { b \in RaceButtons : b = DEFAULT_RACE }
    /\ layerActive' = { b \in LayerButtons : b = DEFAULT_LAYER }
    /\ legendOpacity' = "1"
    /\ LET c == resetCharts(ChartState, rentBurdenData)
       IN  /\ SetCharts(c)
           /\ IF c.threw
              THEN UNCHANGED <<view, mhaVisible, layers, popupOpen>>
              ELSE /\ resetMapView
                   /\ setMapLayer(DEFAULT_LAYER)
    /\ lastEvent' = "reset-click"
    /\ updateRuns' = listeners["reset-btn"]
    /\ UNCHANGED <<mapScript, mapStage, bound, hoveredId, hovered, cursor>>
    /\ UNCHANGED <<chartFetch, burdenFile, rentBurdenData, incomeChart, listeners>>
    /\ UNCHANGED zoneVars

\* ------------------------------------------------------------------- Next
Next ==
    \/ MapLoad
    \/ ZonesFetchOk
    \/ ZonesFetchFail
    \/ \E feats \in {<<>>} \cup { <<f>> : f \in Features } : MouseMove(feats)
    \/ MouseLeave
    \/ MapPan
    \/ ChartsFetchOk
    \/ ChartsFetchFail
    \/ \E year \in SliderYears : SliderInput(year)
    \/ \E race \in RaceButtons : RaceClick(race)
    \/ \E layer \in LayerButtons : LayerClick(layer)
    \/ ResetClick

Spec == Init /\ [][Next]_vars

\* ------------------------------------------------- either map script
\* The hover handlers exist in both map scripts: the page loads one of them.
InitEither == InitState /\ mapScript \in MapScripts /\ zonesFile = DeployedZones(mapScript)

\* the trail with one more colouring, cut to its last MaxTrail entries
Trail(trail, mode) ==
    LET t == Append(trail, mode)
    IN  IF Len(t) > MaxTrail THEN Tail(t) ELSE t

\* a call that sets the legend and leaves the paint as it is
showMhaLayer_KeepsPaint ==
    /\ mapScript = "category"
    /\ IF layers["mha-fill"] = "absent"
       THEN UNCHANGED <<fillColor, legendTitle, legendItems, modeTrail>>
       ELSE /\ modeTrail' = Trail(modeTrail, "mha")
            /\ fillColor' = fillColor
            /\ legendTitle' = "MHA Contribution Level"
            /\ legendItems' = MhaLegendItems
    /\ lastEvent' = "show-mha"
    /\ threw' = FALSE
    /\ updateRuns' = 0
    /\ UNCHANGED <<mapVars, chartVars, domVars, zonesFile, sourceData>>

\* window.showMhaLayer of js/map.js
showMhaLayer ==
    /\ mapScript = "category"
    /\ IF layers["mha-fill"] = "absent"
       THEN UNCHANGED <<fillColor, legendTitle, legendItems, modeTrail>>
       ELSE /\ modeTrail' = Trail(modeTrail, "mha")
            /\ fillColor' = mhaValuePaint
            /\ legendTitle' = "MHA Contribution Level"
            /\ legendItems' = MhaLegendItems
    /\ lastEvent' = "show-mha"
    /\ threw' = FALSE
    /\ updateRuns' = 0
    /\ UNCHANGED <<mapVars, chartVars, domVars, zonesFile, sourceData>>

\* window.showCategoryLayer of js/map.js
showCategoryLayer ==
    /\ mapScript = "category"
    /\ IF layers["mha-fill"] = "absent"
       THEN UNCHANGED <<fillColor, legendTitle, legendItems, modeTrail>>
       ELSE /\ modeTrail' = Trail(modeTrail, "category")
            /\ fillColor' = categoryPaint
            /\ legendTitle' = "Zone Category"
            /\ legendItems' = CategoryLegendItems
    /\ lastEvent' = "show-category"
    /\ threw' = FALSE
    /\ updateRuns' = 0
    /\ UNCHANGED <<mapVars, chartVars, domVars, zonesFile, sourceData>>

NextEither ==
    \/ Next
    \/ CategoryZonesFetchOk
    \/ \E id \in Features \cup {UNDEFINED} : CategoryMouseMove(id)
    \/ CategoryMouseLeave
    \/ showMhaLayer
    \/ showCategoryLayer

SpecEither == InitEither /\ [][NextEither]_vars

\* ------------------------------------------- the globals, called directly
\* initPanel() and setMapLayer() are global functions of the page: any script
\* may call them, at any time, besides the calls the three files make.
InitPanelCall ==
    /\ listeners["year-slider"] < MaxInits
    /\ initPanel
    /\ lastEvent' = "init-panel"
    /\ threw' = FALSE
    /\ updateRuns' = 0
    /\ UNCHANGED <<sliderValue, yearDisplay, raceActive, layerActive, legendOpacity>>
    /\ UNCHANGED <<mapVars, chartVars>>
    /\ UNCHANGED zoneVars

SetMapLayerCall(layer) ==
    /\ mapScript = "setMapLayer"
    /\ setMapLayer(layer)
    /\ lastEvent' = "set-map-layer"
    /\ threw' = FALSE
    /\ updateRuns' = 0
    /\ UNCHANGED <<mapScript, mapStage, bound, hoveredId, hovered, cursor, view>>
    /\ UNCHANGED <<chartVars, domVars>>
    /\ UNCHANGED zoneVars

NextGlobals ==
    \/ Next
    \/ InitPanelCall
    \/ \E layer \in LayerButtons : SetMapLayerCall(layer)

\* The direct calls touch the listeners and the layers only; one burden row
\* at most keeps every path of the handlers they feed.
InitGlobals == Init /\ Len(burdenFile) <= 1

SpecGlobals == InitGlobals /\ [][NextGlobals]_vars

\* ------------------------------------------- the by-race query on any rows
\* rent_burden files with several races in one year
QueryPool ==
    { Row(2022, "White", "Renters", "All", 1800),
      Row(2022, "Black", "Renters", "All", 2000),
      Row(2022, "Multi", "Renters", "All", 2750),
      Row(2022, "Native", "Renters", "All", 4444),
      Row(2021, "Black", "Renters", "All", 3456),
      Row(2022, "Black", "Owners", "All", 1000) }

QueryFiles == { s \in SeqsUpTo(QueryPool, MaxRows + 1) : NoRepeat(s) }

InitQuery ==
    /\ InitPage
    /\ mapScript \in MapScripts
    /\ zonesFile = DeployedZones(mapScript)
    /\ burdenFile \in QueryFiles

\* rentBurdenData = <file>.features.map(f => f.properties)
RowsLoaded ==
    /\ chartFetch = "idle"
    /\ chartFetch' = "ok"
    /\ rentBurdenData' = burdenFile
    /\ lastEvent' = "rows-loaded"
    /\ UNCHANGED <<burdenFile, currentYear, currentRace, trendChart, raceChart, incomeChart,
                   statText, subLabel, chart2Label, threw, updateRuns>>
    /\ UNCHANGED <<mapVars, domVars, zoneVars>>

\* getBurdenByRace(year) of js/charts.js, its values put in the bar chart
QueryByRace(year) ==
    /\ mapScript = "setMapLayer"
    /\ chartFetch = "ok"
    /\ currentYear' = year
    /\ raceChart' = [built |-> TRUE, y |-> getBurdenByRace(rentBurdenData, year)]
    /\ lastEvent' = "get-burden-by-race"
    /\ UNCHANGED <<chartFetch, burdenFile, rentBurdenData, currentRace, trendChart, incomeChart,
                   statText, subLabel, chart2Label, threw, updateRuns>>
    /\ UNCHANGED <<mapVars, domVars, zoneVars>>

\* buildRaceChart() of the chart script that loads by itself
buildRaceChart ==
    /\ mapScript = "category"
    /\ chartFetch = "ok"
    /\ raceChart' = [built |-> TRUE, y |-> buildRaceChartValues(rentBurdenData)]
    /\ lastEvent' = "build-race-chart"
    /\ UNCHANGED <<chartFetch, burdenFile, rentBurdenData, currentYear, currentRace, trendChart,
                   incomeChart, statText, subLabel, chart2Label, threw, updateRuns>>
    /\ UNCHANGED <<mapVars, domVars, zoneVars>>

NextQuery ==
    \/ RowsLoaded
    \/ \E year \in SliderYears : QueryByRace(year)
    \/ buildRaceChart

SpecQuery == InitQuery /\ [][NextQuery]_vars

\* ------------------------------------------------ loading any zones file
\* Either page, given any of the zones files, up to the end of the load.
InitReproject ==
    /\ InitState
    /\ mapScript \in MapScripts
    /\ zonesFile \in ZoneFiles
    /\ burdenFile = <<>>

NextReproject ==
    \/ MapLoad
    \/ ZonesFetchOk
    \/ CategoryZonesFetchOk
    \/ ZonesFetchFail

SpecReproject == InitReproject /\ [][NextReproject]_vars

\* ----------------------------------------------------------------- claims
PanelBound == \E c \in Controls : listeners[c] > 0
ChartsBuilt == chartFetch = "ok" /\ trendChart.built /\ raceChart.built /\ incomeChart
LayersExist == \A l \in LayerIds : layers[l] # "absent"
PanelEvents == {"slider-input", "race-click", "reset-click"}

\* C1: startup is a strict chain: the chart fetch starts only once the zones
\* fetch has resolved and the layers exist, and the controls are bound only
\* once the chart data has loaded and the charts are built.
C1_ReadinessChain ==
    /\ chartFetch # "idle" => (mapStage = "ok" /\ LayersExist)
    /\ PanelBound => ChartsBuilt

\* C2: while the chart data has failed to load or has not loaded yet, a
\* slider, race-button or reset event is handled without an uncaught error.
C2_NoThrowWithoutData ==
    (chartFetch # "ok" /\ lastEvent \in PanelEvents) => ~threw

\* C3: at most one polygon id has its hovered flag set, and that id is the
\* tracked hoveredId: a move onto a new feature clears the previous flag.
C3_AtMostOneHovered ==
    /\ Cardinality(hovered) <= 1
    /\ hovered \subseteq {hoveredId}

C3_Witness ==
    /\ mapScript = "category"
    /\ lastEvent = "mousemove"
    /\ hoveredId = 1
    /\ hovered = {1}
    /\ popupOpen

\* C4: after a pointer-leave no polygon is flagged hovered, the tracked id is
\* null and the popup is off the map.
C4_LeaveClearsHover ==
    lastEvent = "mouseleave" => (hovered = {} /\ hoveredId = NULL /\ ~popupOpen)

C4_Witness ==
    /\ mapScript = "setMapLayer"
    /\ lastEvent = "mouseleave"
    /\ cursor = ""
    /\ hovered = {}
    /\ hoveredId = NULL
    /\ mapStage = "ok"

\* C5: a reset leaves year 2022, race All and layer mha selected, the slider,
\* the year label, the active buttons, the legend opacity and the layer
\* visibility at their defaults, and both charts showing All / 2022 data.
C5_ResetRestoresDefaults ==
    lastEvent = "reset-click" =>
        /\ currentYear = DEFAULT_YEAR
        /\ currentRace = DEFAULT_RACE
        /\ sliderValue = DEFAULT_YEAR
        /\ yearDisplay = DEFAULT_YEAR
        /\ raceActive = {DEFAULT_RACE}
        /\ layerActive = {DEFAULT_LAYER}
        /\ legendOpacity = "1"
        /\ mhaVisible
        /\ \A l \in LayerIds : layers[l] = "visible"
        /\ trendChart = TrendColumns(rentBurdenData, DEFAULT_RACE)
        /\ raceChart = [built |-> TRUE, y |-> getBurdenByRace(rentBurdenData, DEFAULT_YEAR)]

\* C6: once burden rows are loaded, the selected year is one of their years.
C6_YearInData ==
    (chartFetch = "ok" /\ rentBurdenData # <<>>) => currentYear \in getYears(rentBurdenData)

\* C7: however often initPanel runs, a control carries one listener and one
\* slider input, race click, layer click or reset click runs its update once.
C7_OneListenerPerControl ==
    /\ \A c \in Controls : listeners[c] <= 1
    /\ updateRuns <= 1

\* C8: setMapLayer called while the layers do not exist yet changes nothing:
\* not the visibility flag, not the popup, not the layers, and raises no error.
C8_NoOpBeforeLayers ==
    [][(lastEvent' = "set-map-layer" /\ ~LayersExist)
           => (mhaVisible' = mhaVisible /\ popupOpen' = popupOpen /\ layers' = layers
               /\ ~threw')]_vars

\* C9: a year change leaves the trend chart's data and the selected race as
\* they were (and with them the income chart, the loaded rows, the race and
\* layer buttons, the legend and the map): it writes the bar chart, the year
\* labels and the headline stat only.
C9_YearChangeFrame ==
    [][lastEvent' = "slider-input" =>
          /\ trendChart' = trendChart
          /\ currentRace' = currentRace
          /\ UNCHANGED <<incomeChart, rentBurdenData, raceActive, layerActive, legendOpacity>>
          /\ UNCHANGED mapVars]_vars

C9_Witness ==
    /\ lastEvent = "slider-input"
    /\ updateRuns = 1
    /\ ~threw
    /\ currentYear = 2021
    /\ currentRace = "Black"
    /\ Len(trendChart.x) = 2
    /\ raceChart.y[2] = 346

\* C10: a race change leaves the bar chart's data and the selected year as
\* they were (and with them the year labels, the slider, the income chart,
\* the loaded rows, the layer buttons, the legend and the map): it writes the
\* trend chart, the active race button and the headline stat only.
C10_RaceChangeFrame ==
    [][lastEvent' = "race-click" =>
          /\ raceChart' = raceChart
          /\ currentYear' = currentYear
          /\ UNCHANGED <<chart2Label, incomeChart, rentBurdenData, sliderValue, yearDisplay,
                         layerActive, legendOpacity>>
          /\ UNCHANGED mapVars]_vars

C10_Witness ==
    /\ lastEvent = "race-click"
    /\ updateRuns = 1
    /\ ~threw
    /\ currentRace = "Black"
    /\ currentYear = 2021
    /\ raceChart.y[2] = 346
    /\ Len(trendChart.x) = 2

\* a Renters/all-ages record of the loaded rows for the selection shown
HasRecord == FindRow(rentBurdenData, currentYear, currentRace) # 0
RenderEvents == PanelEvents \cup {"charts-loaded"}

\* C11: at the first render and after every year, race or reset event of a
\* bound control, when no Renters/all-ages record exists for the selected
\* (year, race) the headline stat shows the placeholder and the handler has
\* raised no error.
C11_PlaceholderOnMiss ==
    (lastEvent \in RenderEvents /\ (lastEvent \in PanelEvents => updateRuns > 0) /\ ~HasRecord)
        => (statText = "-" /\ ~threw)

\* the fraction v (in 1e-4) as a percentage with one decimal: the tenths of a
\* percent nearest to it
Tenths(v) == CHOOSE t \in 0 .. 1000 : 10 * t - 5 <= v /\ v < 10 * t + 5
OneDecimal(v) == ToString(Tenths(v) \div 10) \o "." \o ToString(Tenths(v) % 10) \o "%"

\* C12: whenever a record exists for the current (year, race), the headline
\* stat is that record's fraction as a percentage with one decimal and the
\* sub-label reads "<Race> renters . <Year>" ("All renters" for All); the
\* fraction 0.231 of (2022, All) shows "23.1%" over "All renters . 2022".
C12_StatShowsRecord ==
    HasRecord =>
        /\ \E i \in 1 .. Len(rentBurdenData) :
              /\ IsRow(rentBurdenData[i], currentYear, currentRace)
              /\ statText = OneDecimal(rentBurdenData[i].All_)
        /\ subLabel = (IF currentRace = "All" THEN "All" ELSE currentRace)
                          \o " renters . " \o ToString(currentYear)
        /\ (currentYear = 2022 /\ currentRace = "All")
              => (statText = "23.1%" /\ subLabel = "All renters . 2022")

C12_Witness ==
    /\ lastEvent = "reset-click"
    /\ HasRecord
    /\ ~threw
    /\ statText = "23.1%"
    /\ subLabel = "All renters . 2022"

\* the value a by-race query owes for one race
ValueFor(data, year, race, val) ==
    IF \E k \in 1 .. Len(data) : IsRow(data[k], year, race)
    THEN \E k \in 1 .. Len(data) : IsRow(data[k], year, race) /\ val = Tenths(data[k].All_)
    ELSE val = 0

\* C13: for every year and every order of the rows in the file, the by-race
\* query returns one value per race in the fixed order White, Black, Hispanic,
\* Asian, Native (then Multi in the script that lists it): as many values as
\* races, at position i race i's Renters/all-ages burden of the year as a
\* percentage, and 0 for a race without a record.
C13_ByRaceFixedOrder ==
    /\ lastEvent = "get-burden-by-race" =>
          LET order == <<"White", "Black", "Hispanic", "Asian", "Native">>
          IN  /\ Len(raceChart.y) = 5
              /\ \A i \in 1 .. 5 : ValueFor(rentBurdenData, currentYear, order[i], raceChart.y[i])
    /\ lastEvent = "build-race-chart" =>
          LET order == <<"White", "Black", "Hispanic", "Asian", "Native", "Multi">>
          IN  /\ Len(raceChart.y) = 6
              /\ \A i \in 1 .. 6 : ValueFor(rentBurdenData, 2022, order[i], raceChart.y[i])

\* the file stores Black before White
C13_Witness ==
    /\ lastEvent = "get-burden-by-race"
    /\ currentYear = 2022
    /\ Len(rentBurdenData) = 2
    /\ rentBurdenData[1].RACE = "Black"
    /\ rentBurdenData[2].RACE = "White"
    /\ raceChart.y = <<180, 200, 0, 0, 0>>

\* the colouring and the legend of a mode, as the category page's script
\* writes them
ModePaint(mode) ==
    IF mode = "mha"
    THEN <<"match", "get MHA_VALUE", "M", "#f5a623", "M1", "#e07b39", "M2", "#c0392b", "#4a5568">>
    ELSE <<"match", "get CATEGORY_DESC",
           "Lowrise Multi-Family", "#4fc3c3", "High-Density Multi-Family", "#177e89",
           "Neighborhood Commercial", "#f5a623", "Commercial", "#e07b39",
           "Seattle Mixed", "#9b59b6", "Industrial", "#7f8c8d",
           "Downtown", "#e74c3c", "Major Institutions", "#2ecc71", "#4a5568">>
ModeLegendTitle(mode) == IF mode = "mha" THEN "MHA Contribution Level" ELSE "Zone Category"
ModeLegendRows(mode) == IF mode = "mha" THEN 4 ELSE 9

\* C14: on the category page the fill colour expression and the legend are a
\* function of the mode applied last: mha, category, mha gives the expression
\* the layer was created with and the legend of the first mha call, and a
\* mode applied twice gives what it gives applied once.
C14_ModeRoundTrip ==
    (mapScript = "category" /\ modeTrail # <<>>) =>
        LET mode == modeTrail[Len(modeTrail)]
        IN  /\ fillColor = ModePaint(mode)
            /\ lastEvent \in {"show-mha", "show-category"} =>
                  /\ legendTitle = ModeLegendTitle(mode)
                  /\ Len(legendItems) = ModeLegendRows(mode)
                  /\ \A i \in 1 .. Len(legendItems) - 1 :
                        /\ legendItems[i][1] = fillColor[2 * i + 2]
                        /\ mode = "category" => legendItems[i][2] = fillColor[2 * i + 1]

C14_Witness ==
    /\ modeTrail = <<"mha", "category", "mha">>
    /\ lastEvent = "show-mha"
    /\ fillColor[4] = "#f5a623"
    /\ legendTitle = "MHA Contribution Level"

\* the positions of a coordinates value
RECURSIVE Positions(_)
Positions(coords) ==
    IF coords.kind = "pair" THEN {coords}
    ELSE UNION { Positions(coords.items[i]) : i \in 1 .. Len(coords.items) }

\* C15: once the zones are loaded, every position of every geometry has been
\* transformed exactly once if the file declares a projected reference, and
\* not at all if the file is in geographic coordinates, by the file's crs.
C15_TransformByDeclaredCrs ==
    mapStage = "ok" =>
        \A i \in 1 .. Len(sourceData.features) :
            \A p \in Positions(sourceData.features[i]) :
                p.n = IF zonesFile.crs = "EPSG:2285" THEN 1 ELSE 0

\* C16: after any race click or reset exactly one race button is active and
\* it is the button of the charts' current race; nothing else moves either.
C16_OneActiveRace ==
    [][/\ lastEvent' \in {"race-click", "reset-click"} =>
             (Cardinality(raceActive') = 1 /\ raceActive' = {currentRace'})
       /\ (raceActive' # raceActive \/ currentRace' # currentRace) =>
             lastEvent' \in {"race-click", "reset-click"}]_vars

C16_Witness ==
    /\ lastEvent = "race-click"
    /\ raceActive = {"Black"}
    /\ currentRace = "Black"

\* C17: once the controls are bound, exactly one layer button is active, the
\* three polygon layers have the same visibility, and the active button is
\* 'mha' exactly if the legend is opaque, mhaVisible is true and the three
\* layers are visible.
C17_LayerIndicatorsAgree ==
    PanelBound =>
        /\ Cardinality(layerActive) = 1
        /\ \A l1, l2 \in LayerIds : layers[l1] = layers[l2]
        /\ (layerActive = {"mha"}) <=>
              (legendOpacity = "1" /\ mhaVisible /\ \A l \in LayerIds : layers[l] = "visible")

\* C18: after a failed zones fetch the charts are never fetched or built, no
\* control gets a listener and the selection stays as served, for good; after
\* a zones fetch that succeeded the chart fetch has started and every control
\* has its listener.
C18_FetchGatesInit ==
    /\ [](mapStage = "failed" =>
            /\ chartFetch = "idle"
            /\ ~trendChart.built /\ ~raceChart.built /\ ~incomeChart
            /\ \A c \in Controls : listeners[c] = 0
            /\ currentYear = DEFAULT_YEAR /\ currentRace = DEFAULT_RACE)
    /\ [](mapStage = "ok" => (chartFetch # "idle" /\ \A c \in Controls : listeners[c] > 0))
    /\ [][mapStage = "failed" => mapStage' = "failed"]_vars

C18_Witness ==
    /\ mapStage = "failed"
    /\ lastEvent = "slider-input"
    /\ sliderValue = 2023
    /\ currentYear = 2022

====
